---- MODULE Spec2Model ----
(***************************************************************************)
(* OnCallAgent: a round-robin load balancer (src/loadbalancer.py) that     *)
(* refreshes its backend list from a process manager                       *)
(* (src/process_manager.py), which spawns, health-checks, scales and stops *)
(* backend processes and keeps the registry of instances.                  *)
(*                                                                         *)
(* Both programs are asyncio programs: one thread runs the coroutines, and *)
(* a coroutine gives up control only at an await that really suspends.     *)
(* Every action below is the code between two such suspension points.      *)
(* asyncio.Lock.acquire on a free lock returns without suspending, and     *)
(* leaving an `async with lock` block does not suspend either.             *)
(***************************************************************************)
EXTENDS Integers, Sequences, FiniteSets, Bags, TLC

\* ------------------------------------------------------------------ bounds

\* Width of the port range BASE_PORT..MAX_PORT (PM_MAX_PORT is configurable).
PortRange == 2
\* Number of backends the manager may report to the router in one poll.
MaxBackends == 3
\* Number of pick_primary_and_alt calls the router serves in one run.
MaxCalls == 4
\* Number of backend processes the manager may spawn in one run.
MaxProcs == 2
\* Number of control-plane requests the manager gets in one run.
NumTasks == 3

\* ------------------------------------------------------- program constants

BASE_PORT == 8001
MAX_PORT == BASE_PORT + PortRange - 1
Ports == BASE_PORT..MAX_PORT

\* A backend base URL, f"http://{host}:{port}".
Url(host, port) == <<"http", host, port>>

\* The static default of the BACKENDS environment variable.
BACKENDS == << Url("localhost", 8001), Url("localhost", 8002) >>

None == 0

\* ---------------------------------------------------------------- state

VARIABLES
    \* ---- router (loadbalancer.py)
    state_backends,   \* app.state.backends
    rr_idx,           \* __rr_idx, the round-robin cursor
    refresh_pc,       \* where the refresh() task is: "get" | "sleep"
    pick_pc,          \* per request: "idle" | "pending" | "locking" | "returned"
    captured,         \* per request: the local `backends` of a call that
                      \* sleeps at line 35
    client,           \* app.state.client: "open" | "closing" | "closed"
    \* ---- router, history (not program state)
    poll_resp,        \* the response the tick of refresh() now sleeping got
    tick_prev,        \* list, cursor and number of calls when that tick began
    hist,             \* the calls served since the list was last replaced,
                      \* each with the request it answered and what it returned
    cursor0,          \* the cursor when the list was last replaced
    \* ---- process manager (process_manager.py)
    instances,        \* the registry: port -> pid of the Instance, or None
    lock,             \* the registry lock: the request holding it, or None
    waiters,          \* the requests sleeping on the lock, first in line first
    sd_file,          \* the targets in the discovery file
    pc,               \* per request: where its handler is
    req,              \* per request: the request body
    loc,              \* per request: the handler's local variables
    reply,            \* per request: the response, once there is one
    \* ---- the operating system
    proc,             \* the processes spawned, by pid: port and state
    sigs              \* the signals sent to them: <<pid, "TERM" | "KILL">>

rvars == <<state_backends, rr_idx, refresh_pc, pick_pc, captured, client,
           poll_resp, tick_prev, hist, cursor0>>

mvars == <<instances, lock, waiters, sd_file, pc, req, loc, reply, proc, sigs>>

vars == <<rvars, mvars>>

\* ======================================================================
\* Router
\* ======================================================================

Calls == 1..MaxCalls

\* Python's list[i] for i >= 0.
IndexError == <<"IndexError">>
ListGet(list, i) == IF i >= 0 /\ i < Len(list) THEN list[i + 1] ELSE IndexError

\* Mutant: the primary is read at the raw cursor, without the modulo.
PrimaryIndex_NoModulo(cursor, n) == cursor
\* line 36: the position the primary is read from.
PrimaryIndex(cursor, n) == cursor % n
\* Mutant: the cursor is normalised but not advanced.
AdvanceCursor_Stuck(cursor, n) == cursor % n
\* line 38: the cursor advances once.
AdvanceCursor(cursor, n) == (cursor + 1) % n
\* line 39: the position the alternate is read from (the advanced cursor).
AltIndex(cursor, n) == cursor % n

\* Mutant: computing the alternate advances the cursor a second time.
PickPrimaryAndAlt_AltAdvances(backends, cursor) ==
    LET n == Len(backends)
        idx == PrimaryIndex(cursor, n)
        next == AdvanceCursor(cursor, n)
        altidx == IF n > 1 THEN AltIndex(next, n) ELSE None - 1
    IN [err |-> "", n |-> n, idx |-> idx, altidx |-> altidx,
        primary |-> ListGet(backends, idx),
        alt |-> IF n > 1 THEN ListGet(backends, altidx) ELSE <<"None">>,
        list |-> backends,
        cursor |-> IF n > 1 THEN AdvanceCursor(next, n) ELSE next]

\* pick_primary_and_alt, lines 33-40, on the list and cursor it finds.
\* n = 0 makes line 36 raise ZeroDivisionError before the cursor is written.
PickPrimaryAndAlt(backends, cursor) ==
    LET n == Len(backends) IN
    IF n = 0
    THEN [err |-> "ZeroDivisionError", n |-> 0, idx |-> 0, altidx |-> None - 1,
          primary |-> IndexError, alt |-> IndexError, list |-> backends,
          cursor |-> cursor]
    ELSE LET idx == PrimaryIndex(cursor, n)
             primary == ListGet(backends, idx)
             next == AdvanceCursor(cursor, n)
             altidx == IF n > 1 THEN AltIndex(next, n) ELSE None - 1
             alt == IF n > 1 THEN ListGet(backends, altidx) ELSE <<"None">>
         IN [err |-> IF primary = IndexError \/ alt = IndexError
                     THEN "IndexError" ELSE "",
             n |-> n, idx |-> idx, altidx |-> altidx,
             primary |-> primary, alt |-> alt, list |-> backends,
             cursor |-> IF primary = IndexError THEN cursor ELSE next]

\* A request arrives; its handler is scheduled on the event loop. Requests
\* are numbered in the order they arrive; they are served in any order.
PickArrive(c) ==
    /\ pick_pc[c] = "idle"
    /\ \A d \in Calls : d < c => pick_pc[d] # "idle"
    /\ pick_pc' = [pick_pc EXCEPT ![c] = "pending"]
    /\ UNCHANGED <<state_backends, rr_idx, refresh_pc, captured, client,
                   poll_resp, tick_prev, hist, cursor0>>
    /\ UNCHANGED mvars

\* Mutant: entering `async with __rr_lock` gives up control to the event
\* loop before the lock is held.
AcquireSuspends_Always == TRUE
\* Line 35: whether a call sleeps on entering `async with __rr_lock`. The
\* lock is free whenever a call gets there, because the block it guards holds
\* no await, and acquire() on a free lock returns without suspending.
AcquireSuspends == FALSE

\* The handler runs pick_primary_and_alt. The list is read before the lock is
\* taken (line 33), from app.state.backends as it is then; a call that does
\* not sleep at line 35 runs on to its return, one that sleeps there goes on
\* later with the list it read.
PickCall(c) ==
    /\ pick_pc[c] \in {"pending", "locking"}
    /\ IF pick_pc[c] = "pending" /\ AcquireSuspends
       THEN /\ captured' = [captured EXCEPT ![c] = state_backends]
            /\ pick_pc' = [pick_pc EXCEPT ![c] = "locking"]
            /\ UNCHANGED <<rr_idx, hist>>
       ELSE /\ LET backends == IF pick_pc[c] = "locking"
                               THEN captured[c] ELSE state_backends
                   r == PickPrimaryAndAlt(backends, rr_idx)
               IN /\ rr_idx' = r.cursor
                  /\ hist' = Append(hist, [call |-> c, ret |-> r])
            /\ pick_pc' = [pick_pc EXCEPT ![c] = "returned"]
            /\ captured' = [captured EXCEPT ![c] = <<>>]
    /\ UNCHANGED <<state_backends, refresh_pc, client, poll_resp, tick_prev, cursor0>>
    /\ UNCHANGED mvars

\* ---- Backend Refresher

\* The lists GET /backends of the manager can answer with: the running ports
\* in ascending order.
RECURSIVE SortedSeq(_)
SortedSeq(S) ==
    IF S = {} THEN <<>>
    ELSE LET m == CHOOSE x \in S : \A y \in S : x <= y
         IN <<m>> \o SortedSeq(S \ {m})

UrlList(S) == LET s == SortedSeq(S) IN [i \in 1..Len(s) |-> Url("127.0.0.1", s[i])]

\* The ports of the backends a poll may report.
PolledPorts == BASE_PORT..(BASE_PORT + MaxBackends - 1)

\* What a poll can come back with: the request raising (timeout, refused
\* connection), a non-200 status, a 200 whose body is not a JSON object, a
\* 200 JSON object without "backends", and a 200 with a list.
PollResponses ==
    {[raised |-> TRUE, status |-> 0, kind |-> "none", backends |-> <<>>]}
    \cup {[raised |-> FALSE, status |-> 500, kind |-> "object", backends |-> <<>>]}
    \cup {[raised |-> FALSE, status |-> 200, kind |-> k, backends |-> <<>>] :
            k \in {"garbage", "nokey"}}
    \cup {[raised |-> FALSE, status |-> 200, kind |-> "object", backends |-> UrlList(S)] :
            S \in SUBSET PolledPorts}

\* Mutant: a poll that raises resets the list to the static default.
RefreshAssign_ResetOnFailure(resp, cur) ==
    IF resp.raised THEN BACKENDS
    ELSE IF resp.status # 200 THEN cur
    ELSE IF resp.kind = "garbage" THEN cur
    ELSE LET got == IF resp.kind = "nokey" THEN cur ELSE resp.backends
         IN IF got # <<>> THEN got ELSE cur

\* Mutant: the `or app.state.backends` fallback is missing.
RefreshAssign_NoFallback(resp, cur) ==
    IF resp.raised THEN cur
    ELSE IF resp.status # 200 THEN cur
    ELSE IF resp.kind = "garbage" THEN cur
    ELSE IF resp.kind = "nokey" THEN cur ELSE resp.backends

\* Lines 52-57: the value app.state.backends has after the response.
RefreshAssign(resp, cur) ==
    IF resp.raised THEN cur                     \* line 53 raises
    ELSE IF resp.status # 200 THEN cur          \* line 54
    ELSE IF resp.kind = "garbage" THEN cur      \* r.json() or .get raises
    ELSE LET got == IF resp.kind = "nokey" THEN cur ELSE resp.backends
         IN IF got # <<>> THEN got ELSE cur     \* `or app.state.backends`

\* Whether line 55 assigned a list taken from the response.
Swapped(resp) ==
    /\ ~resp.raised /\ resp.status = 200 /\ resp.kind = "object"
    /\ resp.backends # <<>>

\* One tick of refresh(): the response to line 53 arrives and lines 54-57 run.
\* A request made on a closed client raises; one that was in flight when the
\* client was closed ends either way.
RefreshTick(resp) ==
    /\ refresh_pc = "get"
    /\ client = "closed" => resp.raised
    /\ client' = IF client = "closing" THEN "closed" ELSE client
    /\ state_backends' = RefreshAssign(resp, state_backends)
    /\ poll_resp' = resp
    /\ tick_prev' = [list |-> state_backends, cursor |-> rr_idx, calls |-> Len(hist)]
    /\ IF state_backends' # state_backends
       THEN hist' = <<>> /\ cursor0' = rr_idx
       ELSE UNCHANGED <<hist, cursor0>>
    /\ refresh_pc' = "sleep"
    /\ UNCHANGED <<rr_idx, pick_pc, captured>>
    /\ UNCHANGED mvars

NoPoll == [raised |-> FALSE, status |-> 0, kind |-> "none", backends |-> <<>>]
NoTick == [list |-> <<>>, cursor |-> 0, calls |-> 0]

\* Line 58: the sleep ends and the loop polls again.
RefreshSleep ==
    /\ refresh_pc = "sleep"
    /\ refresh_pc' = "get"
    /\ poll_resp' = NoPoll
    /\ tick_prev' = NoTick
    /\ UNCHANGED <<state_backends, rr_idx, pick_pc, captured, client, hist, cursor0>>
    /\ UNCHANGED mvars

\* _shutdown, lines 61-63: the client is closed; the refresh task is left as
\* it is, in its sleep or in its request.
Shutdown ==
    /\ client = "open"
    /\ client' = IF refresh_pc = "get" THEN "closing" ELSE "closed"
    /\ UNCHANGED <<state_backends, rr_idx, refresh_pc, pick_pc, captured,
                   poll_resp, tick_prev, hist, cursor0>>
    /\ UNCHANGED mvars

\* _startup has run: line 49 copied BACKENDS, the refresh task is created.
InitRouter ==
    /\ state_backends = BACKENDS
    /\ rr_idx = 0
    /\ refresh_pc = "get"
    /\ pick_pc = [c \in Calls |-> "idle"]
    /\ captured = [c \in Calls |-> <<>>]
    /\ client = "open"
    /\ poll_resp = NoPoll
    /\ tick_prev = NoTick
    /\ hist = <<>>
    /\ cursor0 = 0

NextRouter ==
    \/ \E c \in Calls : PickArrive(c)
    \/ \E c \in Calls : PickCall(c)
    \/ \E resp \in PollResponses : RefreshTick(resp)
    \/ RefreshSleep

\* ======================================================================
\* Process manager
\* ======================================================================

Tasks == 1..NumTasks

\* A process that has exited; it holds no port.
Exited == [port |-> None, st |-> "exited"]

\* inst.process.poll() is None: the process has not exited.
Running(pid) == proc[pid].st \in {"boot", "listen"}

\* port_free, lines 36-43: a TCP connect to the port fails, that is, no
\* process is accepting connections on it.
PortFree(p) == ~\E pid \in DOMAIN proc : proc[pid].port = p /\ proc[pid].st = "listen"

\* pick_next_port, lines 46-53: the smallest port of the range that is no
\* registry key and is free; None stands for the RuntimeError of line 53.
PickNextPort ==
    LET ok == {p \in Ports : instances[p] = None /\ PortFree(p)}
    IN IF ok = {} THEN None ELSE CHOOSE p \in ok : \A q \in ok : p <= q

\* Line 178 (and 134, 233): the registered ports whose process is running,
\* ascending.
RunningPorts(reg, procs) ==
    SortedSeq({p \in Ports : reg[p] # None /\ procs[reg[p]].st \in {"boot", "listen"}})

\* _sd_payload, lines 231-240: the targets of the running instances.
SdPayload(reg, procs) ==
    LET r == RunningPorts(reg, procs) IN [i \in 1..Len(r) |-> <<"localhost", r[i]>>]

Reverse(s) == [i \in 1..Len(s) |-> s[Len(s) + 1 - i]]
Take(s, n) == [i \in 1..(IF n < Len(s) THEN n ELSE Len(s)) |-> s[i]]

\* Mutant: an instance counts as running only once it accepts connections.
AlreadyRunning_OnlyIfListening(port) ==
    instances[port] # None /\ proc[instances[port]].st = "listen"
\* Line 142: port in instances and instances[port].process.poll() is None.
AlreadyRunning(port) == instances[port] # None /\ Running(instances[port])

\* Lines 156-163: the port of the instance a stop request names, or None.
StopTarget(r) ==
    IF r.port # None
    THEN IF instances[r.port] # None THEN r.port ELSE None
    ELSE IF r.pid # None
         THEN LET m == {p \in Ports : instances[p] = r.pid}
              IN IF m = {} THEN None ELSE CHOOSE p \in m : TRUE
         ELSE None

\* Lines 194-199: the port a scale-up item spawns on; None when line 199
\* skips the item.
ItemPort(p) == IF ~PortFree(p) THEN PickNextPort ELSE p

NoReq == [op |-> "none", port |-> None, pid |-> None, replicas |-> 0]
NoLoc == [port |-> None, pid |-> None, running |-> <<>>, to_start |-> <<>>,
          to_stop |-> <<>>, i |-> 0, started |-> <<>>]
NoResp == [status |-> 0, ok |-> FALSE, port |-> None, started |-> <<>>,
           stopped |-> <<>>, detail |-> ""]

\* The handler ends with an HTTP error (HTTPException or an uncaught
\* exception, which the framework answers with 500).
Raise(t, status, detail) ==
    /\ pc' = [pc EXCEPT ![t] = "done"]
    /\ reply' = [reply EXCEPT ![t] = [NoResp EXCEPT !.status = status, !.detail = detail]]

\* The handler returns a 200 response.
Return(t, r) ==
    /\ pc' = [pc EXCEPT ![t] = "done"]
    /\ reply' = [reply EXCEPT ![t] = r]

\* A handler that has its response returns it before anything else runs.
Delivered == \A t \in Tasks : pc[t] # "done"

\* ---- the registry lock (asyncio.Lock, FIFO)

\* `async with lock` goes on without suspending when the lock is free and
\* nobody waits for it; otherwise the handler queues up and sleeps.
CanAcquire == lock = None /\ waiters = <<>>
\* A sleeping handler goes on when the lock is free and it is first in line.
Woken(t) == lock = None /\ waiters # <<>> /\ Head(waiters) = t

\* ---- POST /start

\* Mutant: wait_healthy is awaited inside the `async with lock` block.
LockAfterRegister_Held(t) == t
\* Lines 146-148 and 201-202: the `async with lock` block ends with the
\* registration, before wait_healthy is awaited; the lock is free again.
LockAfterRegister(t) == None

\* Lines 141-146, run with the lock held and released at the end.
StartBody(t, r) ==
    LET port == IF r.port # None THEN r.port ELSE PickNextPort IN
    IF port = None
    THEN /\ Raise(t, 500, "RuntimeError: no free ports")
         /\ UNCHANGED <<instances, proc, loc, lock>>
    ELSE IF AlreadyRunning(port)
    THEN /\ Raise(t, 409, "instance already running")
         /\ UNCHANGED <<instances, proc, loc, lock>>
    ELSE IF ~PortFree(port)
    THEN /\ Raise(t, 500, "RuntimeError: port is not free")
         /\ UNCHANGED <<instances, proc, loc, lock>>
    ELSE /\ Len(proc) < MaxProcs
         /\ proc' = Append(proc, [port |-> port, st |-> "boot"])
         /\ instances' = [instances EXCEPT ![port] = Len(proc) + 1]
         /\ loc' = [loc EXCEPT ![t].port = port, ![t].pid = Len(proc) + 1]
         /\ lock' = LockAfterRegister(t)
         /\ pc' = [pc EXCEPT ![t] = "start_health"]
         /\ UNCHANGED reply

\* Requests are numbered in the order they arrive.
Arrives(t) == Delivered /\ pc[t] = "idle" /\ \A u \in Tasks : u < t => pc[u] # "idle"

\* A start request arrives: line 140, and lines 141-146 if the lock is free.
Start(t, port) ==
    /\ Arrives(t)
    /\ LET r == [NoReq EXCEPT !.op = "start", !.port = port] IN
       /\ req' = [req EXCEPT ![t] = r]
       /\ IF CanAcquire
          THEN StartBody(t, r) /\ UNCHANGED waiters
          ELSE /\ pc' = [pc EXCEPT ![t] = "start_lock"]
               /\ waiters' = Append(waiters, t)
               /\ UNCHANGED <<instances, proc, loc, reply, lock>>
    /\ UNCHANGED <<sd_file, sigs>>
    /\ UNCHANGED rvars

\* A start that waited for the lock gets it.
StartResume(t) ==
    /\ Delivered
    /\ pc[t] = "start_lock" /\ Woken(t)
    /\ waiters' = Tail(waiters)
    /\ StartBody(t, req[t])
    /\ UNCHANGED <<sd_file, req, sigs>>
    /\ UNCHANGED rvars

\* wait_healthy, lines 73-85: True as soon as the port answers, False when
\* the deadline passes without an answer.
WaitHealthy(port) == ~PortFree(port)

\* Mutant: a start whose health wait timed out rolls the registration back.
StartWaitHealthy_RollsBack(t) ==
    /\ Delivered
    /\ pc[t] = "start_health"
    /\ instances' = IF WaitHealthy(loc[t].port) THEN instances
                    ELSE [instances EXCEPT ![loc[t].port] = None]
    /\ sd_file' = SdPayload(instances', proc)
    /\ Return(t, [NoResp EXCEPT !.status = 200, !.ok = WaitHealthy(loc[t].port),
                                !.port = loc[t].port])
    /\ UNCHANGED <<lock, waiters, req, loc, proc, sigs>>
    /\ UNCHANGED rvars
\* Lines 148-150: the health wait ends, the discovery file is written and
\* the response is returned.
StartWaitHealthy(t) ==
    /\ Delivered
    /\ pc[t] = "start_health"
    /\ sd_file' = SdPayload(instances, proc)
    /\ Return(t, [NoResp EXCEPT !.status = 200, !.ok = WaitHealthy(loc[t].port),
                                !.port = loc[t].port])
    /\ UNCHANGED <<instances, lock, waiters, req, loc, proc, sigs>>
    /\ UNCHANGED rvars

\* ---- POST /stop

\* Mutant: the discovery file is rewritten on the way out of a failed stop.
StopNotFound_WritesFile(t) ==
    /\ Raise(t, 404, "instance not found")
    /\ sd_file' = SdPayload(instances, proc)
    /\ UNCHANGED <<instances, lock, loc, sigs>>
\* Lines 164-165: no target, HTTPException(404); the lock is released.
StopNotFound(t) ==
    /\ Raise(t, 404, "instance not found")
    /\ UNCHANGED <<instances, lock, sd_file, loc, sigs>>

\* Lines 156-166 up to the first sleep of graceful_stop: the target is looked
\* up; without one the request ends with 404; a target that has exited is
\* popped at once (line 94 returns on the first poll) and lines 167-169 run;
\* a running one gets SIGTERM, unless terminate() raises, which lines 90-91
\* swallow, and the handler sleeps holding the lock.
StopBody(t, r) ==
    LET target == StopTarget(r) IN
    IF target = None
    THEN StopNotFound(t)
    ELSE IF ~Running(instances[target])
    THEN /\ instances' = [instances EXCEPT ![target] = None]
         /\ sd_file' = SdPayload(instances', proc)
         /\ Return(t, [NoResp EXCEPT !.status = 200, !.ok = TRUE, !.port = target])
         /\ UNCHANGED <<lock, loc, sigs>>
    ELSE /\ \E sent \in BOOLEAN :
              sigs' = IF sent THEN sigs \cup {<<instances[target], "TERM">>} ELSE sigs
         /\ lock' = t
         /\ loc' = [loc EXCEPT ![t].port = target, ![t].pid = instances[target]]
         /\ pc' = [pc EXCEPT ![t] = "stop_grace"]
         /\ UNCHANGED <<instances, sd_file, reply>>

\* The bodies of stop requests: a port, or a pid, or neither.
StopRequests ==
    {[port |-> p, pid |-> None] : p \in Ports \cup {None}}
    \cup {[port |-> None, pid |-> q] : q \in 1..MaxProcs}

\* A stop request arrives: line 155, and the body if the lock is free.
Stop(t, port, pid) ==
    /\ Arrives(t)
    /\ LET r == [NoReq EXCEPT !.op = "stop", !.port = port, !.pid = pid] IN
       /\ req' = [req EXCEPT ![t] = r]
       /\ IF CanAcquire
          THEN StopBody(t, r) /\ UNCHANGED waiters
          ELSE /\ pc' = [pc EXCEPT ![t] = "stop_lock"]
               /\ waiters' = Append(waiters, t)
               /\ UNCHANGED <<instances, lock, sd_file, loc, reply, sigs>>
    /\ UNCHANGED proc
    /\ UNCHANGED rvars

\* A stop that waited for the lock gets it.
StopResume(t) ==
    /\ Delivered
    /\ pc[t] = "stop_lock" /\ Woken(t)
    /\ waiters' = Tail(waiters)
    /\ StopBody(t, req[t])
    /\ UNCHANGED <<req, proc>>
    /\ UNCHANGED rvars

\* Mutant: a target that had to be killed is left in the registry.
StopGrace_KeepsKilled(t) ==
    /\ Delivered
    /\ pc[t] = "stop_grace" /\ lock = t
    /\ IF Running(loc[t].pid)
       THEN /\ proc' = [proc EXCEPT ![loc[t].pid] = Exited]
            /\ sigs' = sigs \cup {<<loc[t].pid, "KILL">>}
            /\ UNCHANGED instances
       ELSE /\ UNCHANGED <<proc, sigs>>
            /\ instances' = [instances EXCEPT ![loc[t].port] = None]
    /\ lock' = None
    /\ sd_file' = SdPayload(instances', proc')
    /\ Return(t, [NoResp EXCEPT !.status = 200, !.ok = TRUE, !.port = loc[t].port])
    /\ UNCHANGED <<waiters, req, loc>>
    /\ UNCHANGED rvars
\* Lines 93-98 and 167-169: the grace wait ends, because the process has
\* exited or because the deadline passed and it is killed; the instance is
\* popped, the lock released, the discovery file written.
StopGrace(t) ==
    /\ Delivered
    /\ pc[t] = "stop_grace" /\ lock = t
    /\ IF Running(loc[t].pid)
       THEN /\ proc' = [proc EXCEPT ![loc[t].pid] = Exited]
            /\ sigs' = sigs \cup {<<loc[t].pid, "KILL">>}
       ELSE UNCHANGED <<proc, sigs>>
    /\ instances' = [instances EXCEPT ![loc[t].port] = None]
    /\ lock' = None
    /\ sd_file' = SdPayload(instances', proc')
    /\ Return(t, [NoResp EXCEPT !.status = 200, !.ok = TRUE, !.port = loc[t].port])
    /\ UNCHANGED <<waiters, req, loc>>
    /\ UNCHANGED rvars

\* ---- POST /scale

\* Line 205 calls the list to_stop: TypeError, whatever the list holds. The
\* loop body (lines 206-212) and lines 213-214 are never reached.
ScaleStopLoop(t) == Raise(t, 500, "TypeError: 'list' object is not callable")

\* Lines 182-184: pick_next_port is called `need` times against an unchanged
\* registry, so to_start holds the same port `need` times.
ToStart(replicas, current) ==
    [i \in 1..(IF replicas > current THEN replicas - current ELSE 0) |-> PickNextPort]
\* Lines 185-188: the highest running ports, highest first.
ToStop(replicas, running) ==
    IF replicas < Len(running)
    THEN Take(Reverse(running), Len(running) - replicas)
    ELSE <<>>

\* Lines 191-201 for item i of to_start, reached with the lock free and
\* `others` waiting behind this handler. A skipped item (line 199) takes the
\* loop to the next item, which is skipped as well unless the handler has to
\* queue up behind the others first.
ScaleItemBody(t, l, others) ==
    LET p == ItemPort(l.to_start[l.i]) IN
    IF p = None
    THEN /\ UNCHANGED <<instances, proc, lock>>
         /\ IF l.i < Len(l.to_start) /\ others # <<>>
            THEN /\ loc' = [loc EXCEPT ![t] = [l EXCEPT !.i = @ + 1]]
                 /\ pc' = [pc EXCEPT ![t] = "scale_item"]
                 /\ waiters' = Append(others, t)
                 /\ UNCHANGED reply
            ELSE /\ loc' = [loc EXCEPT ![t] = [l EXCEPT !.i = Len(l.to_start) + 1]]
                 /\ waiters' = others
                 /\ ScaleStopLoop(t)
    ELSE /\ Len(proc) < MaxProcs
         /\ proc' = Append(proc, [port |-> p, st |-> "boot"])
         /\ instances' = [instances EXCEPT ![p] = Len(proc) + 1]
         /\ loc' = [loc EXCEPT ![t] = [l EXCEPT !.port = p, !.pid = Len(proc) + 1]]
         /\ lock' = LockAfterRegister(t)
         /\ pc' = [pc EXCEPT ![t] = "scale_item_health"]
         /\ waiters' = others
         /\ UNCHANGED reply

\* The loop of line 191 at item l.i: past the end it falls to line 205; at
\* an item it takes the lock, or queues up for it.
ScaleLoop(t, l, others) ==
    IF l.i > Len(l.to_start)
    THEN /\ loc' = [loc EXCEPT ![t] = l]
         /\ waiters' = others
         /\ ScaleStopLoop(t)
         /\ UNCHANGED <<instances, proc, lock>>
    ELSE IF others # <<>>
    THEN /\ loc' = [loc EXCEPT ![t] = l]
         /\ pc' = [pc EXCEPT ![t] = "scale_item"]
         /\ waiters' = Append(others, t)
         /\ UNCHANGED <<instances, proc, reply, lock>>
    ELSE ScaleItemBody(t, l, others)

\* Lines 177-190 with the lock held, and on into the loop of line 191.
ScalePlan(t, r, others) ==
    LET running == RunningPorts(instances, proc)
        current == Len(running)
        l == [loc[t] EXCEPT !.running = running,
                            !.to_start = ToStart(r.replicas, current),
                            !.to_stop = ToStop(r.replicas, running),
                            !.i = 1]
    IN IF r.replicas > current /\ PickNextPort = None
       THEN /\ Raise(t, 500, "RuntimeError: no free ports")
            /\ loc' = [loc EXCEPT ![t] = [l EXCEPT !.to_start = <<>>]]
            /\ waiters' = others
            /\ UNCHANGED <<instances, proc, lock>>
       ELSE ScaleLoop(t, l, others)

\* A scale request arrives: lines 174-176, and the plan if the lock is free.
Scale(t, replicas) ==
    /\ Arrives(t)
    /\ LET r == [NoReq EXCEPT !.op = "scale", !.replicas = replicas] IN
       /\ req' = [req EXCEPT ![t] = r]
       /\ IF replicas > MAX_PORT - BASE_PORT + 1
          THEN /\ Raise(t, 400, "replicas exceed port range capacity")
               /\ UNCHANGED <<instances, proc, loc, waiters, lock>>
          ELSE IF CanAcquire
          THEN ScalePlan(t, r, waiters)
          ELSE /\ pc' = [pc EXCEPT ![t] = "scale_plan"]
               /\ waiters' = Append(waiters, t)
               /\ UNCHANGED <<instances, proc, loc, reply, lock>>
    /\ UNCHANGED <<sd_file, sigs>>
    /\ UNCHANGED rvars

\* A scale that waited for the lock before its plan gets it.
ScalePlanResume(t) ==
    /\ Delivered
    /\ pc[t] = "scale_plan" /\ Woken(t)
    /\ ScalePlan(t, req[t], Tail(waiters))
    /\ UNCHANGED <<sd_file, req, sigs>>
    /\ UNCHANGED rvars

\* A scale that waited for the lock before an item gets it.
ScaleItemResume(t) ==
    /\ Delivered
    /\ pc[t] = "scale_item" /\ Woken(t)
    /\ ScaleItemBody(t, loc[t], Tail(waiters))
    /\ UNCHANGED <<sd_file, req, sigs>>
    /\ UNCHANGED rvars

\* Lines 202-203: the health wait of the item ends (its result is dropped),
\* the port is appended to started, and the loop goes on.
ScaleWaitHealthy(t) ==
    /\ Delivered
    /\ pc[t] = "scale_item_health"
    /\ LET l == [loc[t] EXCEPT !.started = Append(@, loc[t].port), !.i = @ + 1] IN
       IF lock = None
       THEN ScaleLoop(t, l, waiters)
       ELSE \* the lock is held: past the end the loop needs no lock
            IF l.i > Len(l.to_start)
            THEN /\ loc' = [loc EXCEPT ![t] = l]
                 /\ ScaleStopLoop(t)
                 /\ UNCHANGED <<instances, proc, waiters, lock>>
            ELSE /\ loc' = [loc EXCEPT ![t] = l]
                 /\ pc' = [pc EXCEPT ![t] = "scale_item"]
                 /\ waiters' = Append(waiters, t)
                 /\ UNCHANGED <<instances, proc, reply, lock>>
    /\ UNCHANGED <<sd_file, req, sigs>>
    /\ UNCHANGED rvars

\* The response goes out and the handler is gone.
Deliver(t) ==
    /\ pc[t] = "done"
    /\ pc' = [pc EXCEPT ![t] = "gone"]
    /\ req' = [req EXCEPT ![t] = NoReq]
    /\ loc' = [loc EXCEPT ![t] = NoLoc]
    /\ reply' = [reply EXCEPT ![t] = NoResp]
    /\ UNCHANGED <<instances, lock, waiters, sd_file, proc, sigs>>
    /\ UNCHANGED rvars

\* ---- the backend processes

\* A booting process binds its port and starts answering; the bind fails,
\* and the process exits, when another process holds the port.
ProcBind(pid) ==
    /\ Delivered
    /\ proc[pid].st = "boot"
    /\ proc' = [proc EXCEPT ![pid].st = IF PortFree(proc[pid].port)
                                        THEN "listen" ELSE "exited",
                             ![pid].port = IF PortFree(proc[pid].port)
                                           THEN @ ELSE None]
    /\ UNCHANGED <<instances, lock, waiters, sd_file, pc, req, loc, reply, sigs>>
    /\ UNCHANGED rvars

\* A running process exits: on its own, or in answer to SIGTERM.
ProcExit(pid) ==
    /\ Delivered
    /\ Running(pid)
    /\ proc' = [proc EXCEPT ![pid] = Exited]
    /\ UNCHANGED <<instances, lock, waiters, sd_file, pc, req, loc, reply, sigs>>
    /\ UNCHANGED rvars

\* The manager has started: line 29, line 30, and line 250 wrote the file.
InitManager ==
    /\ instances = [p \in Ports |-> None]
    /\ lock = None
    /\ waiters = <<>>
    /\ sd_file = <<>>
    /\ pc = [t \in Tasks |-> "idle"]
    /\ req = [t \in Tasks |-> NoReq]
    /\ loc = [t \in Tasks |-> NoLoc]
    /\ reply = [t \in Tasks |-> NoResp]
    /\ proc = <<>>
    /\ sigs = {}

NextManager ==
    \/ \E t \in Tasks, port \in Ports \cup {None} : Start(t, port)
    \/ \E t \in Tasks : StartResume(t)
    \/ \E t \in Tasks : StartWaitHealthy(t)
    \/ \E t \in Tasks, r \in StopRequests : Stop(t, r.port, r.pid)
    \/ \E t \in Tasks : StopResume(t)
    \/ \E t \in Tasks : StopGrace(t)
    \/ \E t \in Tasks, replicas \in 0..(PortRange + 1) : Scale(t, replicas)
    \/ \E t \in Tasks : ScalePlanResume(t)
    \/ \E t \in Tasks : ScaleItemResume(t)
    \/ \E t \in Tasks : ScaleWaitHealthy(t)
    \/ \E pid \in DOMAIN proc : ProcBind(pid)
    \/ \E pid \in DOMAIN proc : ProcExit(pid)
    \/ \E t \in Tasks : Deliver(t)

Init == InitRouter /\ InitManager

Next == NextRouter \/ NextManager

Spec == Init /\ [][Next]_vars

SpecRouter == Init /\ [][NextRouter]_vars

SpecManager == Init /\ [][NextManager]_vars

\* ---- the router polling the manager

\* Mutant: GET /backends lists every registered instance, exited or not.
Backends_ListsExited == UrlList({p \in Ports : instances[p] # None})
\* GET /backends, lines 131-136: the URLs of the registered instances whose
\* process is running, in ascending port order.
Backends ==
    UrlList({p \in Ports : instances[p] # None /\ Running(instances[p])})

\* Line 53 returns the manager's answer with status 200.
RefreshPoll ==
    RefreshTick([raised |-> FALSE, status |-> 200, kind |-> "object",
                 backends |-> Backends])

\* Line 53 raises, or returns something other than the manager's answer.
RefreshPollFails ==
    \E resp \in {r \in PollResponses : r.raised \/ r.status # 200 \/ r.kind # "object"} :
        RefreshTick(resp)

\* The refresh task polling a manager that serves start and stop requests
\* while its backends come up and exit. (POST /scale registers instances the
\* way start does, lines 200-201, and stops none.)
NextSystem ==
    \/ \E t \in Tasks, port \in Ports \cup {None} : Start(t, port)
    \/ \E t \in Tasks : StartResume(t)
    \/ \E t \in Tasks : StartWaitHealthy(t)
    \/ \E t \in Tasks, r \in StopRequests : Stop(t, r.port, r.pid)
    \/ \E t \in Tasks : StopResume(t)
    \/ \E t \in Tasks : StopGrace(t)
    \/ \E pid \in DOMAIN proc : ProcBind(pid)
    \/ \E pid \in DOMAIN proc : ProcExit(pid)
    \/ \E t \in Tasks : Deliver(t)
    \/ RefreshPoll
    \/ RefreshPollFails
    \/ RefreshSleep

\* The sleep of line 58 ends, and of the polls the task goes on making some
\* succeed.
SpecSystem ==
    /\ Init /\ [][NextSystem]_vars
    /\ WF_vars(RefreshSleep)
    /\ SF_vars(RefreshPoll)

\* The refresh task and the shutdown of the router.
NextRefresher ==
    \/ \E resp \in PollResponses : RefreshTick(resp)
    \/ RefreshSleep
    \/ Shutdown

SpecRefresher == Init /\ [][NextRefresher]_vars

\* pick_primary_and_alt on the lists and cursors it can be handed: the lists
\* GET /backends can answer with, the empty one among them.
InitPick ==
    /\ state_backends \in {UrlList(S) : S \in SUBSET PolledPorts}
    /\ rr_idx \in 0..(MaxBackends - 1)
    /\ cursor0 = rr_idx
    /\ refresh_pc = "get"
    /\ pick_pc = [c \in Calls |-> "idle"]
    /\ captured = [c \in Calls |-> <<>>]
    /\ client = "open"
    /\ poll_resp = NoPoll
    /\ tick_prev = NoTick
    /\ hist = <<>>
    /\ InitManager

NextPick ==
    \/ \E c \in Calls : PickArrive(c)
    \/ \E c \in Calls : PickCall(c)

SpecPick == InitPick /\ [][NextPick]_vars

\* ======================================================================
\* Claims about the router
\* ======================================================================

\* The primaries a cursor starting at c0 hands out over `list` in m calls.
Expected(list, c0, m) == [i \in 1..m |-> list[((c0 + i - 1) % Len(list)) + 1]]

\* C1: with the backend list fixed (size k >= 1, cursor c0 when it was
\* installed), the calls served since return as primaries backends[c0 mod k],
\* backends[(c0+1) mod k], ... in the order they are served; each call leaves
\* the cursor one position further (mod k); and every window of k consecutive
\* calls reads every position of the list exactly once.
C1_RoundRobinSequence ==
    LET k == Len(state_backends) IN
    k >= 1 =>
      /\ \A i \in 1..Len(hist) :
            /\ hist[i].ret.primary = Expected(state_backends, cursor0, Len(hist))[i]
            /\ hist[i].ret.cursor = (cursor0 + i) % k
      /\ rr_idx = IF hist = <<>> THEN cursor0 ELSE (cursor0 + Len(hist)) % k
      /\ \A j \in 1..Len(hist) :
            j + k - 1 <= Len(hist) =>
              /\ {hist[i].ret.idx : i \in j..(j + k - 1)} = 0..(k - 1)
              /\ \A a, b \in j..(j + k - 1) :
                    a # b => hist[a].ret.idx # hist[b].ret.idx

\* C1 witness: a list of three backends has been cycled through and the
\* fourth call has wrapped around to the position of the first.
C1_Witness ==
    /\ Len(state_backends) = 3
    /\ Len(hist) = 4
    /\ hist[4].ret.primary = hist[1].ret.primary

RECURSIVE SeqToBag(_)
SeqToBag(s) == IF s = <<>> THEN EmptyBag ELSE SetToBag({Head(s)}) (+) SeqToBag(Tail(s))

\* C2: calls in flight together are served in any order, and however they
\* are ordered the primaries returned to the callers are, as a multiset, the
\* primaries of cursor positions c0, c0+1, ..., c0+N-1, each caller holding
\* one of them, and the cursor ends at (c0+N) mod k.
C2_ConcurrentPicksPartitionPositions ==
    LET k == Len(state_backends)
        N == Len(hist)
        returned == [i \in 1..N |-> hist[i].ret.primary]
    IN k >= 1 =>
      /\ SeqToBag(returned) = SeqToBag(Expected(state_backends, cursor0, N))
      /\ \A a, b \in 1..N : a # b => hist[a].call # hist[b].call
      /\ N >= 1 => rr_idx = (cursor0 + N) % k
      /\ \A a, b \in 1..N :
            (a # b /\ hist[a].ret.idx = hist[b].ret.idx) => (a - b) % k = 0

\* C2 witness: three calls were in flight at once and were served in the
\* reverse of the order they arrived in.
C2_Witness ==
    /\ Len(hist) = 3
    /\ hist[1].call = 3 /\ hist[2].call = 2 /\ hist[3].call = 1
    /\ Len(state_backends) = 2

\* C3: every call reads the list it selected from at positions inside that
\* list, for the primary and for the alternate, also when the cursor it
\* found was left by a call against a longer list.
C3_IndexInRange ==
    \A i \in 1..Len(hist) :
        LET r == hist[i].ret IN
        /\ r.n = Len(r.list)
        /\ r.idx \in 0..(r.n - 1)
        /\ r.n > 1 => r.altidx \in 0..(r.n - 1)
        /\ r.primary # IndexError /\ r.alt # IndexError
        /\ r.err = ""

\* C3 witness: the list shrank under a cursor that is past its end, and a
\* call has been served from the shorter list.
C3_Witness ==
    /\ cursor0 >= Len(state_backends)
    /\ Len(hist) >= 1
    /\ Len(state_backends) = 2

\* A tick that failed: the request raised, the status was not 200, or the
\* body could not be parsed.
PollFailed(resp) == resp.raised \/ resp.status # 200 \/ resp.kind = "garbage"

\* C4: after a failed tick the list is the list from before the tick, the
\* tick has not moved the cursor, and the calls served after it select from
\* that same list.
C4_FailedTickKeepsList ==
    (refresh_pc = "sleep" /\ PollFailed(poll_resp)) =>
      /\ state_backends = tick_prev.list
      /\ Len(hist) >= tick_prev.calls
      /\ Len(hist) = tick_prev.calls => rr_idx = tick_prev.cursor
      /\ \A i \in 1..Len(hist) :
            i > tick_prev.calls =>
              /\ hist[i].ret.list = tick_prev.list
              /\ hist[i].ret.err = ""

\* C4 witness: a tick failed while the list was one a poll had installed,
\* and a call has been served since.
C4_Witness ==
    /\ refresh_pc = "sleep" /\ PollFailed(poll_resp)
    /\ state_backends # BACKENDS
    /\ Len(hist) > tick_prev.calls

\* C5: the backend list is never empty; a 200 poll with a non-empty list
\* replaces it by exactly that list, and a 200 poll with an empty list
\* leaves the previous list in place.
C5_BackendsNonEmpty ==
    /\ Len(state_backends) >= 1
    /\ (refresh_pc = "sleep" /\ Swapped(poll_resp)) =>
          state_backends = poll_resp.backends
    /\ (refresh_pc = "sleep" /\ ~PollFailed(poll_resp) /\ ~Swapped(poll_resp)) =>
          state_backends = tick_prev.list

\* C5 witness: a 200 poll carried an empty list while the list in place was
\* one an earlier poll had installed.
C5_Witness ==
    /\ refresh_pc = "sleep"
    /\ ~poll_resp.raised /\ poll_resp.status = 200 /\ poll_resp.kind = "object"
    /\ poll_resp.backends = <<>>
    /\ state_backends # BACKENDS

C18_RefresherStopsAtShutdown ==
    [][client # "open" =>
          /\ ~(refresh_pc = "sleep" /\ refresh_pc' = "get")
          /\ state_backends' = state_backends]_vars

RunningSet == {p \in Ports : instances[p] # None /\ Running(instances[p])}

\* The step in which a poll of the manager succeeds.
PollSucceeds ==
    /\ refresh_pc = "get" /\ refresh_pc' = "sleep"
    /\ ~poll_resp'.raised /\ poll_resp'.status = 200 /\ poll_resp'.kind = "object"

\* C15: if from some point on the set of running registered instances stays
\* a fixed non-empty set R, then from some point on the router's backend list
\* is the list of R's URLs in ascending port order, and stays that; and each
\* successful poll that finds a running instance leaves the router with the
\* list of the running instances' URLs in ascending port order.
C15_RouterObservesRegistry ==
    /\ \A R \in (SUBSET Ports) \ {{}} :
          <>[](RunningSet = R) => <>[](state_backends = UrlList(R))
    /\ [][(PollSucceeds /\ RunningSet # {})
            => state_backends' = UrlList(RunningSet)]_vars

\* C15 witness: the router's list is the manager's list of two running
\* backends, after an instance was started that the static default does
\* not name.
C15_Witness ==
    /\ RunningSet = Ports
    /\ state_backends = UrlList(RunningSet)
    /\ refresh_pc = "sleep"

\* ======================================================================
\* Claims about the process manager
\* ======================================================================

\* The step in which request t runs the locked body of start (lines 141-146).
StartBodyRuns(t) ==
    /\ pc[t] \in {"idle", "start_lock"}
    /\ pc'[t] \in {"start_health", "done"}
    /\ req'[t].op = "start"

\* C6: a start on an explicit port whose registry entry is an instance that
\* is still running (booting or answering) ends with 409, spawns no process
\* and leaves the registry as it was.
C6_SecondStartRejected ==
    [][\A t \in Tasks :
          (/\ StartBodyRuns(t)
           /\ req'[t].port # None
           /\ instances[req'[t].port] # None
           /\ proc[instances[req'[t].port]].st \in {"boot", "listen"})
          => (/\ reply'[t].status = 409
              /\ proc' = proc
              /\ instances' = instances)]_vars

\* C6 witness: a start on a port is still in its health wait, its process
\* not yet answering, and a second start on the same port has got 409.
C6_Witness ==
    \E t, u \in Tasks :
        /\ u < t
        /\ req[u].op = "start" /\ req[u].port # None /\ pc[u] = "start_health"
        /\ proc[loc[u].pid].st = "boot"
        /\ req[t].op = "start" /\ req[t].port = req[u].port
        /\ pc[t] = "done" /\ reply[t].status = 409

\* The step in which request t runs the locked body of stop (lines 156-166).
StopBodyRuns(t) ==
    /\ pc[t] \in {"idle", "stop_lock"}
    /\ pc'[t] \in {"stop_grace", "done"}
    /\ req'[t].op = "stop"

\* The request names no registry entry: by its port, or without a port by
\* its pid.
NoMatch(r) ==
    IF r.port # None
    THEN instances[r.port] = None
    ELSE \A p \in Ports : instances[p] = None \/ instances[p] # r.pid

\* C7: a stop that matches no registry entry ends with 404, sends no signal,
\* and changes neither a process, nor the registry, nor the discovery file,
\* and does not keep the lock.
C7_StopNotFoundChangesNothing ==
    [][\A t \in Tasks :
          (StopBodyRuns(t) /\ NoMatch(req'[t]))
          => (/\ reply'[t].status = 404
              /\ sigs' = sigs
              /\ proc' = proc
              /\ instances' = instances
              /\ sd_file' = sd_file
              /\ lock' = lock)]_vars

\* C7 witness: a stop by pid got 404 while the registry held an instance
\* with another pid, whose exit the discovery file does not show yet.
C7_Witness ==
    \E t \in Tasks :
        /\ req[t].op = "stop" /\ req[t].port = None /\ req[t].pid # None
        /\ pc[t] = "done" /\ reply[t].status = 404
        /\ \E p \in Ports : instances[p] # None /\ instances[p] # req[t].pid
        /\ sd_file # SdPayload(instances, proc)

\* A scale request has got its response after taking its snapshot.
ScaleDone(t) ==
    /\ req[t].op = "scale" /\ pc[t] = "done"
    /\ reply[t].status # 400
    /\ loc[t].i >= 1

\* C8: a scale whose desired count equals the number of running instances
\* completes with 200 and started = [] and stopped = [].
C8_ScaleIdempotent ==
    \A t \in Tasks :
        (ScaleDone(t) /\ req[t].replicas = Len(loc[t].running))
        => (/\ reply[t].status = 200
            /\ reply[t].started = <<>>
            /\ reply[t].stopped = <<>>)

\* The n largest elements of an ascending sequence, largest first.
Highest(s, n) == [i \in 1..n |-> s[Len(s) + 1 - i]]

\* C9: a scale whose desired count is below the number of running instances
\* completes with 200, reports the |R| - desired highest running ports,
\* highest first, in stopped, and has removed them from the registry.
C9_ScaleDownHighestFirst ==
    \A t \in Tasks :
        (ScaleDone(t) /\ req[t].replicas < Len(loc[t].running))
        => LET want == Highest(loc[t].running, Len(loc[t].running) - req[t].replicas)
           IN /\ reply[t].status = 200
              /\ reply[t].stopped = want
              /\ \A i \in 1..Len(want) : instances[want[i]] = None

\* C10: no port is double-bound: every running process is the registered
\* instance of its port, so no running instance's entry was overwritten by a
\* later spawn and no running process is left untracked.
C10_NoDoubleBind ==
    \A pid \in DOMAIN proc :
        Running(pid) => instances[proc[pid].port] = pid

\* No control-plane request is in flight.
Quiescent == \A t \in Tasks : pc[t] \in {"idle", "done", "gone"}

\* C11: with no request in flight and every registered instance's process
\* still running (none has exited since it was registered), the targets of
\* the discovery file are exactly the registered running instances.
C11_DiscoveryFileMatchesRegistry ==
    (/\ Quiescent
     /\ \A p \in Ports : instances[p] # None => Running(instances[p]))
    => sd_file = SdPayload(instances, proc)

\* The step in which the health wait of start request t ends.
StartWaitEnds(t) == pc[t] = "start_health" /\ pc'[t] = "done"

\* C12: when the health wait of a start ends without the port answering,
\* the call returns 200 with ok = false and the port, and the step removes
\* nothing from the registry and touches no process.
C12_StartTimeoutKeepsInstance ==
    [][\A t \in Tasks :
          (StartWaitEnds(t) /\ PortFree(loc[t].port))
          => (/\ reply'[t].status = 200
              /\ reply'[t].ok = FALSE
              /\ reply'[t].port = loc[t].port
              /\ instances' = instances
              /\ proc' = proc)]_vars

\* C12 witness: a start has returned ok = false while its instance is still
\* registered under its port with its process alive and not yet answering.
C12_Witness ==
    \E t \in Tasks :
        /\ req[t].op = "start" /\ pc[t] = "done"
        /\ reply[t].status = 200 /\ reply[t].ok = FALSE
        /\ instances[reply[t].port] = loc[t].pid
        /\ proc[loc[t].pid].st = "boot"

\* C14: a scale batch in which an item failed (fewer ports started than
\* planned) has still attempted every item and completes with 200, reporting
\* the ports it started.
C14_ScaleBatchSurvivesItemFailure ==
    \A t \in Tasks :
        (/\ ScaleDone(t)
         /\ Len(loc[t].to_start) > 0
         /\ Len(loc[t].started) < Len(loc[t].to_start))
        => (/\ loc[t].i > Len(loc[t].to_start)
            /\ reply[t].status = 200
            /\ reply[t].started = loc[t].started)

\* A scale request whose plan found free ports for a scale-up.
ScaleUpPlanned(t) ==
    /\ req[t].op = "scale" /\ loc[t].i >= 1
    /\ req[t].replicas > Len(loc[t].running)
    /\ ~(pc[t] = "done" /\ loc[t].to_start = <<>>)

\* C17: a scale-up plans need = desired - current pairwise-distinct ports,
\* and once it has returned it reports need distinct ports in started.
C17_ScaleUpDistinctPorts ==
    \A t \in Tasks :
        ScaleUpPlanned(t) =>
          LET need == req[t].replicas - Len(loc[t].running) IN
          /\ Len(loc[t].to_start) = need
          /\ \A a, b \in 1..need :
                a # b => loc[t].to_start[a] # loc[t].to_start[b]
          /\ pc[t] = "done" =>
                /\ reply[t].status = 200
                /\ Len(reply[t].started) = need
                /\ \A a, b \in 1..need :
                      a # b => reply[t].started[a] # reply[t].started[b]

\* C16: the registry lock is not held by a handler that is in a health
\* wait, in start or in a scale-up item: whoever holds the lock is a stop in
\* its grace wait, so during a health wait the lock is free for the registry
\* section of another request.
C16_LockFreeDuringHealthWait ==
    /\ \A t \in Tasks :
          pc[t] \in {"start_health", "scale_item_health"} => lock # t
    /\ lock # None => pc[lock] = "stop_grace"

\* C16 witness: a scale-up item is in its health wait, and a start that
\* arrived after the scale has registered its instance and returned.
C16_Witness ==
    \E t, u \in Tasks :
        /\ t < u
        /\ pc[t] = "scale_item_health"
        /\ req[u].op = "start" /\ pc[u] = "done" /\ reply[u].status = 200
        /\ instances[reply[u].port] = loc[u].pid

\* The step in which stop request t returns 200.
StopReturns(t) ==
    /\ pc[t] \in {"idle", "stop_lock", "stop_grace"}
    /\ pc'[t] = "done"
    /\ req'[t].op = "stop" /\ reply'[t].status = 200

\* C19: a stop that found its target and waits for it holds the lock, so
\* its wait can always end; when a stop returns 200 its target's port is
\* absent from the registry and the lock is free; a target still alive at
\* the deadline is killed, and one that has exited gets no kill.
C19_StopAlwaysRemovesTarget ==
    [][\A t \in Tasks :
          /\ pc'[t] = "stop_grace" => lock' = t
          /\ StopReturns(t) =>
                /\ instances'[reply'[t].port] = None
                /\ lock' = None
                /\ pc[t] = "stop_grace" =>
                      IF Running(loc[t].pid)
                      THEN /\ <<loc[t].pid, "KILL">> \in sigs'
                           /\ proc'[loc[t].pid].st = "exited"
                      ELSE sigs' = sigs /\ proc' = proc
                /\ pc[t] # "stop_grace" => (sigs' = sigs /\ proc' = proc)]_vars

\* C19 witness: a stop has returned 200 for a target that never got SIGTERM
\* (terminate() raised) and was killed at the deadline; its port is absent
\* from the registry.
C19_Witness ==
    \E t \in Tasks :
        /\ req[t].op = "stop" /\ pc[t] = "done" /\ reply[t].status = 200
        /\ <<loc[t].pid, "TERM">> \notin sigs
        /\ <<loc[t].pid, "KILL">> \in sigs
        /\ instances[reply[t].port] = None

====
